---- MODULE Spec2Model ----
(***************************************************************************)
(* Model of the Date-Time-Range-Picker core: the constraint validator      *)
(* (utils/constraints.ts), the date helpers (utils/date.ts) and the        *)
(* civil-time to instant search (utils/timezone.ts).                       *)
(*                                                                         *)
(* A JavaScript Date is modelled as the record [day, ms]: day is the       *)
(* number of whole days since 1970-01-01 and ms the milliseconds into that *)
(* UTC day, so getTime() = day * MsPerDay + ms.  The pair is used instead  *)
(* of the single integer because getTime() of a date in 2024 does not fit  *)
(* the integers of the model checker; the order and the differences of     *)
(* instants are computed exactly from the pair.                            *)
(*                                                                         *)
(* An optional value (undefined / null, or present) is a sequence of       *)
(* length 0 or 1.  A string is the sequence of its characters.             *)
(***************************************************************************)
EXTENDS Integers, Sequences, FiniteSets, TLC

VARIABLES
    range, constraints,   \* the arguments of validateRange
    probe,                \* the date argument of isDateDisabled
    verr, disabled,       \* the results of validateRange and isDateDisabled
    civil, timezone,      \* the arguments of createDateInTimezone
    hourCycle,            \* how the host's formatter numbers the midnight hour
    low, high, bestDate,  \* the locals of createDateInTimezone
    iter,                 \* its loop counter i
    selectedStartDate, selectedEndDate,  \* the state of DateTimeRangePicker
    startTime, endTime,
    hoverDate, currentMonth, currentYear,
    validationError,
    onChangeArg,          \* the argument of the onChange call of the last effect run
    focusedDate,          \* the date of the calendar cell that has the focus
    pointer,              \* the date of the calendar cell the mouse pointer is on
    lastKey,              \* event.key of the last keydown the grid handled
    pc

validatorVars == <<range, constraints, probe, verr, disabled>>
searchVars == <<civil, timezone, hourCycle, low, high, bestDate, iter>>
pickerVars ==
    <<selectedStartDate, selectedEndDate, startTime, endTime, hoverDate,
      currentMonth, currentYear, validationError, onChangeArg, focusedDate,
      pointer, lastKey>>
vars == <<validatorVars, searchVars, pickerVars, pc>>

----------------------------------------------------------------------------
(* Units *)

MsPerMinute == 60000
MsPerHour == 60 * MsPerMinute
MsPerDay == 86400000

None == <<>>
Some(v) == <<v>>

----------------------------------------------------------------------------
(* The proleptic Gregorian calendar of the JavaScript Date built-ins. *)

\* Days since 1970-01-01 of the civil date y-m-d, m in 1..12.
DaysFromCivil(y, m, d) ==
    LET yy  == IF m <= 2 THEN y - 1 ELSE y
        era == yy \div 400
        yoe == yy - era * 400
        mp  == IF m > 2 THEN m - 3 ELSE m + 9
        doy == (153 * mp + 2) \div 5 + d - 1
        doe == yoe * 365 + yoe \div 4 - yoe \div 100 + doy
    IN  era * 146097 + doe - 719468

\* The civil date [year, month (0-based, as in JavaScript), date] of a day number.
CivilFromDays(z0) ==
    LET z   == z0 + 719468
        era == z \div 146097
        doe == z - era * 146097
        yoe == (doe - doe \div 1460 + doe \div 36524 - doe \div 146096) \div 365
        doy == doe - (365 * yoe + yoe \div 4 - yoe \div 100)
        mp  == (5 * doy + 2) \div 153
        d   == doy - (153 * mp + 2) \div 5 + 1
        m   == IF mp < 10 THEN mp + 3 ELSE mp - 9
        y   == yoe + era * 400 + (IF m <= 2 THEN 1 ELSE 0)
    IN  [year |-> y, month |-> m - 1, date |-> d]

\* new Date(ms) for a millisecond count relative to the start of a day:
\* carries whole days out of the millisecond part.
MkDate(day, ms) == [day |-> day + ms \div MsPerDay, ms |-> ms % MsPerDay]

\* new Date(Date.UTC(year, month, day, hour, minute, 0)); out-of-range
\* fields are carried over as Date.UTC does.
DateUTC(year, month, day, hour, minute) ==
    MkDate(DaysFromCivil(year + month \div 12, (month % 12) + 1, 1) + (day - 1),
           hour * MsPerHour + minute * MsPerMinute)

getUTCFullYear(d) == CivilFromDays(d.day).year
getUTCMonth(d) == CivilFromDays(d.day).month
getUTCDate(d) == CivilFromDays(d.day).date
getUTCHours(d) == d.ms \div MsPerHour
getUTCMinutes(d) == (d.ms % MsPerHour) \div MsPerMinute
getUTCSeconds(d) == (d.ms % MsPerMinute) \div 1000

\* a.getTime() - b.getTime()
DiffMs(a, b) == (a.day - b.day) * MsPerDay + (a.ms - b.ms)

\* The relational operators of JavaScript on two Dates (they compare getTime()).
DateLt(a, b) == a.day < b.day \/ (a.day = b.day /\ a.ms < b.ms)
DateLe(a, b) == a.day < b.day \/ (a.day = b.day /\ a.ms <= b.ms)
DateGt(a, b) == DateLt(b, a)
DateGe(a, b) == DateLe(b, a)

----------------------------------------------------------------------------
(* utils/date.ts *)

startOfDay(date) == [day |-> date.day, ms |-> 0]

\* const d = date: the argument itself is truncated and returned
startOfDayTarget_InPlace(ref) == ref

\* The object that startOfDay writes to and returns, given the name of the
\* object passed in: const d = new Date(date) is a fresh copy.
startOfDayTarget(ref) == "copy"

\* a comparison of the instants instead of their calendar days
isSameDay_SameInstant(date1, date2) == date1 = date2

isSameDay(date1, date2) ==
    /\ getUTCFullYear(date1) = getUTCFullYear(date2)
    /\ getUTCMonth(date1) = getUTCMonth(date2)
    /\ getUTCDate(date1) = getUTCDate(date2)

\* currentDate.setUTCDate(currentDate.getUTCDate() + days)
addDays(date, days) == [day |-> date.day + days, ms |-> date.ms]

Digits == <<"0", "1", "2", "3", "4", "5", "6", "7", "8", "9">>

DigitValue(ch) == (CHOOSE k \in 1..10 : Digits[k] = ch) - 1

\* timeString.split(':')
RECURSIVE Split(_, _)
Split(s, cur) ==
    IF s = <<>> THEN <<cur>>
    ELSE IF Head(s) = ":" THEN <<cur>> \o Split(Tail(s), <<>>)
    ELSE Split(Tail(s), Append(cur, Head(s)))

\* Number(part) for a part made of decimal digits; Number("") is 0.
RECURSIVE NumberOf(_, _)
NumberOf(s, acc) ==
    IF s = <<>> THEN acc ELSE NumberOf(Tail(s), acc * 10 + DigitValue(Head(s)))

\* String(n).padStart(2, '0') for 0 <= n <= 99
Pad2(n) == <<Digits[(n \div 10) + 1], Digits[(n % 10) + 1]>>

formatTime(hours, minutes) == Pad2(hours) \o <<":">> \o Pad2(minutes)

parseTime(timeString) ==
    LET parts == Split(timeString, <<>>)
    IN  [hours   |-> NumberOf(parts[1], 0),
         minutes |-> IF Len(parts) >= 2 THEN NumberOf(parts[2], 0) ELSE 0]

----------------------------------------------------------------------------
(* utils/constraints.ts *)

isBlackedOut(date, blackoutDates) ==
    IF blackoutDates = None THEN FALSE
    ELSE \E k \in 1..Len(blackoutDates[1]) : isSameDay(date, blackoutDates[1][k])

\* The day-by-day scan of validateRange: TRUE when some day from currentDate
\* through endDate is blacked out.
RECURSIVE BlackoutScan(_, _, _)
BlackoutScan(currentDate, endDate, blackoutDates) ==
    IF ~DateLe(currentDate, endDate) THEN FALSE
    ELSE IF isBlackedOut(currentDate, blackoutDates) THEN TRUE
    ELSE BlackoutScan(addDays(currentDate, 1), endDate, blackoutDates)

\* The value of currentDate when the scan loop of validateRange is left (by
\* the return inside it or by its condition).
RECURSIVE ScanFinal(_, _, _)
ScanFinal(currentDate, endDate, blackoutDates) ==
    IF ~DateLe(currentDate, endDate) THEN currentDate
    ELSE IF isBlackedOut(currentDate, blackoutDates) THEN currentDate
    ELSE ScanFinal(addDays(currentDate, 1), endDate, blackoutDates)

\* if (!start || !end)
IsPartial(r) == r.start = None \/ r.end = None

\* <= in place of <
MinDateFires_Inclusive(start, c) == c.minDate # None /\ DateLe(start, c.minDate[1])

\* constraints.minDate && start < constraints.minDate
MinDateFires(start, c) == c.minDate # None /\ DateLt(start, c.minDate[1])

\* start in place of end
MaxDateFires_Start(start, end, c) == c.maxDate # None /\ DateGt(start, c.maxDate[1])

\* constraints.maxDate && end > constraints.maxDate
MaxDateFires(start, end, c) == c.maxDate # None /\ DateGt(end, c.maxDate[1])

\* the two endpoints only, without the scan of the days between them
BlackoutFires_EndpointsOnly(start, end, c) ==
    /\ c.blackoutDates # None
    /\ \/ isBlackedOut(start, c.blackoutDates)
       \/ isBlackedOut(end, c.blackoutDates)

\* The blackout block: start's day, end's day, then the scan of the days
\* from startOfDay(start) through startOfDay(end).
BlackoutFires(start, end, c) ==
    /\ c.blackoutDates # None
    /\ \/ isBlackedOut(start, c.blackoutDates)
       \/ isBlackedOut(end, c.blackoutDates)
       \/ BlackoutScan(startOfDay(start), startOfDay(end), c.blackoutDates)

\* > in place of >=
InvalidRangeFires_Strict(start, end) == DateGt(start, end)

\* start >= end
InvalidRangeFires(start, end) == DateGe(start, end)

\* the duration rounded to whole minutes (Math.round) before the comparison
MinDurationFires_Rounded(start, end, c) ==
    /\ c.minDuration # None
    /\ (DiffMs(end, start) + MsPerMinute \div 2) \div MsPerMinute < c.minDuration[1]

\* >= in place of >
MaxDurationFires_Inclusive(start, end, c) ==
    c.maxDuration # None /\ DiffMs(end, start) >= c.maxDuration[1] * MsPerMinute

\* durationMinutes = (end.getTime() - start.getTime()) / (1000 * 60) is a
\* fraction; it is compared with the bound after scaling both sides by
\* MsPerMinute, which keeps the comparison exact.
MinDurationFires(start, end, c) ==
    c.minDuration # None /\ DiffMs(end, start) < c.minDuration[1] * MsPerMinute

MaxDurationFires(start, end, c) ==
    c.maxDuration # None /\ DiffMs(end, start) > c.maxDuration[1] * MsPerMinute

\* The time-of-day rules; an empty string is falsy, like an absent one.
MinTimeFires(start, c) ==
    /\ c.minTime # None
    /\ c.minTime[1] # <<>>
    /\ LET t == parseTime(c.minTime[1])
       IN  \/ getUTCHours(start) < t.hours
           \/ (getUTCHours(start) = t.hours /\ getUTCMinutes(start) < t.minutes)

MaxTimeFires(end, c) ==
    /\ c.maxTime # None
    /\ c.maxTime[1] # <<>>
    /\ LET t == parseTime(c.maxTime[1])
       IN  \/ getUTCHours(end) > t.hours
           \/ (getUTCHours(end) = t.hours /\ getUTCMinutes(end) > t.minutes)

\* the duration rules tested before the date rules
validateComplete_DurationFirst(start, end, c) ==
    IF MinDurationFires(start, end, c) THEN "min_duration"
    ELSE IF MaxDurationFires(start, end, c) THEN "max_duration"
    ELSE IF MinDateFires(start, c) THEN "min_date"
    ELSE IF MaxDateFires(start, end, c) THEN "max_date"
    ELSE IF BlackoutFires(start, end, c) THEN "blackout"
    ELSE IF InvalidRangeFires(start, end) THEN "invalid_range"
    ELSE IF MinTimeFires(start, c) THEN "min_time"
    ELSE IF MaxTimeFires(end, c) THEN "max_time"
    ELSE "none"

\* The rules of validateRange on a complete range, in the order of the code;
\* the result is the type of the ValidationError, or "none" for null.
validateComplete(start, end, c) ==
    IF MinDateFires(start, c) THEN "min_date"
    ELSE IF MaxDateFires(start, end, c) THEN "max_date"
    ELSE IF BlackoutFires(start, end, c) THEN "blackout"
    ELSE IF InvalidRangeFires(start, end) THEN "invalid_range"
    ELSE IF MinDurationFires(start, end, c) THEN "min_duration"
    ELSE IF MaxDurationFires(start, end, c) THEN "max_duration"
    ELSE IF MinTimeFires(start, c) THEN "min_time"
    ELSE IF MaxTimeFires(end, c) THEN "max_time"
    ELSE "none"

\* a partial range validated with its present endpoint as start and end
validateRange_PresentEndpoint(r, c) ==
    IF r.start = None /\ r.end = None THEN "none"
    ELSE validateComplete(IF r.start = None THEN r.end[1] ELSE r.start[1],
                          IF r.end = None THEN r.start[1] ELSE r.end[1], c)

validateRange(r, c) ==
    IF IsPartial(r) THEN "none"
    ELSE validateComplete(r.start[1], r.end[1], c)

\* The Date objects of the range as validateRange leaves them.  The only
\* writes of the function are setUTCHours inside startOfDay and setUTCDate on
\* currentDate in the scan loop; they reach the objects of the range only if
\* startOfDay hands back its argument.
RangeAfterValidate(r, c) ==
    IF IsPartial(r) THEN r
    ELSE LET start == r.start[1]
             end == r.end[1]
             scanReached ==
                 /\ ~MinDateFires(start, c)
                 /\ ~MaxDateFires(start, end, c)
                 /\ c.blackoutDates # None
                 /\ ~isBlackedOut(start, c.blackoutDates)
                 /\ ~isBlackedOut(end, c.blackoutDates)
             endDate == startOfDay(end)
             currentDate == ScanFinal(startOfDay(start), endDate, c.blackoutDates)
         IN  IF ~scanReached THEN r
             ELSE [start |-> IF startOfDayTarget("start") = "start"
                             THEN Some(currentDate) ELSE r.start,
                   end   |-> IF startOfDayTarget("end") = "end"
                             THEN Some(endDate) ELSE r.end]

\* >= in place of > for maxDate
isDateDisabled_Inclusive(date, c) ==
    IF c.minDate # None /\ DateLt(date, c.minDate[1]) THEN TRUE
    ELSE IF c.maxDate # None /\ DateGe(date, c.maxDate[1]) THEN TRUE
    ELSE IF isBlackedOut(date, c.blackoutDates) THEN TRUE
    ELSE FALSE

isDateDisabled(date, c) ==
    IF c.minDate # None /\ DateLt(date, c.minDate[1]) THEN TRUE
    ELSE IF c.maxDate # None /\ DateGt(date, c.maxDate[1]) THEN TRUE
    ELSE IF isBlackedOut(date, c.blackoutDates) THEN TRUE
    ELSE FALSE

----------------------------------------------------------------------------
(* utils/timezone.ts *)

\* The instants at which America/New_York changes its offset in 2024:
\* 2024-03-10T07:00Z (EST to EDT) and 2024-11-03T06:00Z (EDT to EST).
NYSpringForward == [day |-> DaysFromCivil(2024, 3, 10), ms |-> 7 * MsPerHour]
NYFallBack == [day |-> DaysFromCivil(2024, 11, 3), ms |-> 6 * MsPerHour]

\* The offset from UTC, in minutes, that the host's timezone database gives
\* for a zone at an instant (the timeZone option of Intl.DateTimeFormat).
TzOffsetMinutes(tz, date) ==
    CASE tz = "UTC" -> 0
      [] tz = "Asia/Tokyo" -> 540
      [] tz = "Asia/Kolkata" -> 330
      [] tz = "America/New_York" ->
            IF DateGe(date, NYSpringForward) /\ DateLt(date, NYFallBack)
            THEN -240 ELSE -300

\* formatter.formatToParts(testDate) followed by the parseInt of each part:
\* the wall-clock fields of the instant in the zone, month 0-based.  With
\* hour12: false the host numbers the hour after midnight 0 (cycle h23) or,
\* on hosts that resolve the option to the cycle h24, 24.
FormatParts(date, tz, hc) ==
    LET local == MkDate(date.day, date.ms + TzOffsetMinutes(tz, date) * MsPerMinute)
        cd == CivilFromDays(local.day)
        h == getUTCHours(local)
    IN  [year |-> cd.year, month |-> cd.month, day |-> cd.date,
         hour |-> IF hc = "h24" /\ h = 0 THEN 24 ELSE h,
         minute |-> getUTCMinutes(local)]

\* The nested conditional of the loop: -1, 0 or 1 as the formatted fields
\* are before, equal to or after the requested ones.
Comparison(p, c) ==
    IF p.year # c.year THEN (IF p.year < c.year THEN -1 ELSE 1)
    ELSE IF p.month # c.month THEN (IF p.month < c.month THEN -1 ELSE 1)
    ELSE IF p.day # c.day THEN (IF p.day < c.day THEN -1 ELSE 1)
    ELSE IF p.hour # c.hour THEN (IF p.hour < c.hour THEN -1 ELSE 1)
    ELSE IF p.minute # c.minute THEN (IF p.minute < c.minute THEN -1 ELSE 1)
    ELSE 0

MaxIterations == 20

\* roughDate = new Date(Date.UTC(year, month, day, hour, minute, 0))
RoughDate(c) == DateUTC(c.year, c.month, c.day, c.hour, c.minute)

\* The state of the search before the loop.  low and high are kept as
\* offsets in milliseconds from roughDate.getTime(); the midpoint of two
\* instants is roughDate.getTime() plus the midpoint of their offsets.
SearchStart(c) ==
    [low |-> -(24 * 60 * 60 * 1000), high |-> 24 * 60 * 60 * 1000,
     bestDate |-> RoughDate(c), i |-> 0, done |-> FALSE]

\* the loop counter is not advanced (a loop without the iteration limit)
SearchStep_NoCount(c, tz, hc, st) ==
    LET mid == (st.low + st.high) \div 2
        rough == RoughDate(c)
        testDate == MkDate(rough.day, rough.ms + mid)
        p == FormatParts(testDate, tz, hc)
    IN  IF /\ p.year = c.year /\ p.month = c.month /\ p.day = c.day
           /\ p.hour = c.hour /\ p.minute = c.minute
        THEN [st EXCEPT !.bestDate = testDate, !.done = TRUE]
        ELSE IF Comparison(p, c) < 0
        THEN [st EXCEPT !.low = mid + 1]
        ELSE [st EXCEPT !.high = mid - 1]

\* One iteration of the loop.
SearchStep(c, tz, hc, st) ==
    LET mid == (st.low + st.high) \div 2
        rough == RoughDate(c)
        testDate == MkDate(rough.day, rough.ms + mid)
        p == FormatParts(testDate, tz, hc)
    IN  IF /\ p.year = c.year /\ p.month = c.month /\ p.day = c.day
           /\ p.hour = c.hour /\ p.minute = c.minute
        THEN [st EXCEPT !.bestDate = testDate, !.done = TRUE]
        ELSE IF Comparison(p, c) < 0
        THEN [st EXCEPT !.low = mid + 1, !.i = st.i + 1]
        ELSE [st EXCEPT !.high = mid - 1, !.i = st.i + 1]

RECURSIVE SearchLoop(_, _, _, _)
SearchLoop(c, tz, hc, st) ==
    IF st.done \/ st.i >= MaxIterations THEN st
    ELSE SearchLoop(c, tz, hc, SearchStep(c, tz, hc, st))

createDateInTimezone(c, tz, hc) == SearchLoop(c, tz, hc, SearchStart(c)).bestDate

----------------------------------------------------------------------------
(* Inputs of the validator *)

\* 2024-02-28, the first day of the window the inputs are drawn from; the
\* window crosses the leap day and the month boundary.
BaseDay == DaysFromCivil(2024, 2, 28)

\* Number of consecutive days in the window.
NumDays == 3

Days == BaseDay .. (BaseDay + NumDays - 1)

\* 09:00:00, 09:00:30 and 10:00:00
TimesOfDay == {9 * MsPerHour, 9 * MsPerHour + 30000, 10 * MsPerHour}

Dates == {[day |-> d, ms |-> t] : d \in Days, t \in TimesOfDay}

OptDates == {None} \cup {Some(d) : d \in Dates}

\* minDate / maxDate: absent, or an instant of the second day
BoundDates == {None} \cup {Some([day |-> BaseDay + 1, ms |-> t]) : t \in {0, 9 * MsPerHour}}

\* blackoutDates: absent, empty, one entry, two entries (any time of day)
BlackoutLists ==
    {None, Some(<<>>),
     Some(<<[day |-> BaseDay + 1, ms |-> 10 * MsPerHour]>>),
     Some(<<[day |-> BaseDay, ms |-> 0], [day |-> BaseDay + 2, ms |-> 9 * MsPerHour + 30000]>>)}

MinDurations == {None, Some(0), Some(1), Some(60)}
MaxDurations == {None, Some(0), Some(60)}

T0930 == <<"0", "9", ":", "3", "0">>
T1000 == <<"1", "0", ":", "0", "0">>
T0900 == <<"0", "9", ":", "0", "0">>

MinTimes == {None, Some(T0930), Some(T1000)}
MaxTimes == {None, Some(T0900), Some(T0930)}

ConstraintConfigs ==
    [minDate : BoundDates, maxDate : BoundDates, blackoutDates : BlackoutLists,
     minDuration : MinDurations, maxDuration : MaxDurations,
     minTime : MinTimes, maxTime : MaxTimes]

NoRange == [start |-> None, end |-> None]

\* The values of the search variables while no search is running.
SearchIdle ==
    /\ civil = None
    /\ timezone = "UTC"
    /\ hourCycle = "h23"
    /\ low = 0 /\ high = 0 /\ iter = 0
    /\ bestDate = None

T0000 == <<"0", "0", ":", "0", "0">>

\* The values of the picker's variables while no picker is mounted.
PickerIdle ==
    /\ selectedStartDate = None /\ selectedEndDate = None
    /\ startTime = T0000 /\ endTime = T0000
    /\ hoverDate = None
    /\ currentMonth = 0 /\ currentYear = 1970
    /\ validationError = "none"
    /\ onChangeArg = None
    /\ focusedDate = None
    /\ pointer = None
    /\ lastKey = "none"

----------------------------------------------------------------------------
(* validateRange applied to every range and constraint set of the bounds *)

InitValidate ==
    /\ range \in [start : OptDates, end : OptDates]
    /\ constraints \in ConstraintConfigs
    /\ probe = None
    /\ verr = "none"
    /\ disabled = FALSE
    /\ pc = "input"
    /\ SearchIdle
    /\ PickerIdle

Validate ==
    /\ pc = "input"
    /\ verr' = validateRange(range, constraints)
    /\ range' = RangeAfterValidate(range, constraints)
    /\ pc' = "validated"
    /\ UNCHANGED <<constraints, probe, disabled, searchVars, pickerVars>>

NextValidate == Validate

SpecValidate == InitValidate /\ [][NextValidate]_vars

(* isDateDisabled applied to every date and constraint set of the bounds *)

InitDisabled ==
    /\ range = NoRange
    /\ constraints \in ConstraintConfigs
    /\ probe = None
    /\ verr = "none"
    /\ disabled = FALSE
    /\ pc = "input"
    /\ SearchIdle
    /\ PickerIdle

CheckDisabled ==
    /\ pc = "input"
    /\ \E date \in Dates :
          /\ probe' = Some(date)
          /\ disabled' = isDateDisabled(date, constraints)
    /\ pc' = "checked"
    /\ UNCHANGED <<range, constraints, verr, searchVars, pickerVars>>

NextDisabled == CheckDisabled

SpecDisabled == InitDisabled /\ [][NextDisabled]_vars

(* CalendarGrid's rendering of one cell under every constraint set of the
   bounds: the cell's date is new Date(Date.UTC(year, month, day)) *)

RenderCell ==
    /\ pc = "input"
    /\ \E d \in Days :
          \E date \in {DateUTC(getUTCFullYear([day |-> d, ms |-> 0]),
                                getUTCMonth([day |-> d, ms |-> 0]),
                                getUTCDate([day |-> d, ms |-> 0]), 0, 0)} :
             /\ probe' = Some(date)
             /\ disabled' = isDateDisabled(date, constraints)
    /\ pc' = "rendered"
    /\ UNCHANGED <<range, constraints, verr, searchVars, pickerVars>>

NextCell == RenderCell

SpecCell == InitDisabled /\ [][NextCell]_vars

----------------------------------------------------------------------------
(* createDateInTimezone run on every civil time and zone of the bounds *)

Zones == {"UTC", "America/New_York", "Asia/Tokyo", "Asia/Kolkata"}

HourCycles == {"h23", "h24"}

\* The civil days 2024-03-09 .. 2024-03-11 (month 2 is March); New York
\* skips 02:00 - 02:59 on the 10th.
NumCivilDays == 3

CivilDays == 9 .. (8 + NumCivilDays)

\* The civil days 2024-11-02 .. 2024-11-04 (month 10 is November); New York
\* repeats 01:00 - 01:59 on the 3rd.
FallBackDays == 2 .. (1 + NumCivilDays)

CivilHours == {0, 1, 2, 3, 10, 23}
CivilMinutes == {0, 30, 59}

ValidCivils ==
    [year : {2024}, month : {2}, day : CivilDays,
     hour : CivilHours, minute : CivilMinutes]
    \cup
    [year : {2024}, month : {10}, day : FallBackDays,
     hour : {1, 2}, minute : CivilMinutes]

\* month 12, 32 March, 30 February, hour 24, minute 60
MalformedCivils ==
    {[year |-> 2024, month |-> 12, day |-> 9, hour |-> 10, minute |-> 0],
     [year |-> 2024, month |-> 2, day |-> 32, hour |-> 10, minute |-> 0],
     [year |-> 2024, month |-> 1, day |-> 30, hour |-> 10, minute |-> 0],
     [year |-> 2024, month |-> 2, day |-> 9, hour |-> 24, minute |-> 0],
     [year |-> 2024, month |-> 2, day |-> 9, hour |-> 10, minute |-> 60]}

Civils == ValidCivils \cup MalformedCivils

InitSearch ==
    /\ range = NoRange
    /\ constraints \in {c \in ConstraintConfigs : \A f \in DOMAIN c : c[f] = None}
    /\ probe = None
    /\ verr = "none"
    /\ disabled = FALSE
    /\ \E c \in Civils :
          /\ civil = Some(c)
          /\ low = SearchStart(c).low
          /\ high = SearchStart(c).high
          /\ bestDate = Some(SearchStart(c).bestDate)
          /\ iter = SearchStart(c).i
    /\ timezone \in Zones
    /\ hourCycle \in HourCycles
    /\ PickerIdle
    /\ pc = "search"

\* One pass through the body of the for loop.
Iterate ==
    /\ pc = "search"
    /\ iter < MaxIterations
    /\ LET st == SearchStep(civil[1], timezone, hourCycle,
                            [low |-> low, high |-> high, bestDate |-> bestDate[1],
                             i |-> iter, done |-> FALSE])
       IN  /\ low' = st.low
           /\ high' = st.high
           /\ bestDate' = Some(st.bestDate)
           /\ iter' = st.i
           /\ pc' = IF st.done THEN "returned" ELSE "search"
    /\ UNCHANGED <<validatorVars, civil, timezone, hourCycle, pickerVars>>

\* The loop ends without a match: return bestDate.
Exhausted ==
    /\ pc = "search"
    /\ iter >= MaxIterations
    /\ pc' = "returned"
    /\ UNCHANGED <<validatorVars, searchVars, pickerVars>>

NextSearch == Iterate \/ Exhausted

SpecSearch == InitSearch /\ [][NextSearch]_vars

----------------------------------------------------------------------------
(* createDateInTimezone called for two civil times of one zone *)

\* 2024-03-10 01:00 .. 03:30, the hours around the spring-forward gap of
\* New York
OrderCivils ==
    {c \in ValidCivils : c.month = 2 /\ c.day = 10 /\ c.hour \in {1, 2, 3} /\ c.minute \in {0, 30}}

\* civil holds the arguments of the two calls.
InitOrder ==
    /\ range = NoRange
    /\ constraints \in {c \in ConstraintConfigs : \A f \in DOMAIN c : c[f] = None}
    /\ probe = None
    /\ verr = "none"
    /\ disabled = FALSE
    /\ civil \in OrderCivils \X OrderCivils
    /\ timezone \in Zones
    /\ hourCycle \in HourCycles
    /\ low = 0 /\ high = 0 /\ iter = 0
    /\ bestDate = None
    /\ PickerIdle
    /\ pc = "input"

\* Both calls run to their return; bestDate holds the two results.
CallBoth ==
    /\ pc = "input"
    /\ bestDate' = <<createDateInTimezone(civil[1], timezone, hourCycle),
                     createDateInTimezone(civil[2], timezone, hourCycle)>>
    /\ pc' = "compared"
    /\ UNCHANGED <<validatorVars, civil, timezone, hourCycle, low, high, iter, pickerVars>>

NextOrder == CallBoth

SpecOrder == InitOrder /\ [][NextOrder]_vars

----------------------------------------------------------------------------
(* components/TimePicker.tsx and components/DateTimeRangePicker.tsx *)

\* minutes outside 0..59 carried into / borrowed from the hours before the
\* clamping
updateTime_Carry(newHours, newMinutes, c) ==
    LET carriedHours == newHours + newMinutes \div 60
        clampedHours == IF carriedHours < 0 THEN 0 ELSE IF carriedHours > 23 THEN 23 ELSE carriedHours
        clampedMinutes == newMinutes % 60
        raised == IF /\ c.minTime # None
                     /\ \/ clampedHours < parseTime(c.minTime[1]).hours
                        \/ /\ clampedHours = parseTime(c.minTime[1]).hours
                           /\ clampedMinutes < parseTime(c.minTime[1]).minutes
                  THEN parseTime(c.minTime[1])
                  ELSE [hours |-> clampedHours, minutes |-> clampedMinutes]
        final == IF /\ c.maxTime # None
                    /\ \/ raised.hours > parseTime(c.maxTime[1]).hours
                       \/ /\ raised.hours = parseTime(c.maxTime[1]).hours
                          /\ raised.minutes > parseTime(c.maxTime[1]).minutes
                 THEN parseTime(c.maxTime[1])
                 ELSE raised
    IN  formatTime(final.hours, final.minutes)

\* updateTime of the TimePicker: the entered fields clamped to 0..23 and
\* 0..59, then to minTime and maxTime, and handed to onChange as "HH:mm".
updateTime(newHours, newMinutes, c) ==
    LET clampedHours == IF newHours < 0 THEN 0 ELSE IF newHours > 23 THEN 23 ELSE newHours
        clampedMinutes == IF newMinutes < 0 THEN 0 ELSE IF newMinutes > 59 THEN 59 ELSE newMinutes
        raised == IF /\ c.minTime # None
                     /\ \/ clampedHours < parseTime(c.minTime[1]).hours
                        \/ /\ clampedHours = parseTime(c.minTime[1]).hours
                           /\ clampedMinutes < parseTime(c.minTime[1]).minutes
                  THEN parseTime(c.minTime[1])
                  ELSE [hours |-> clampedHours, minutes |-> clampedMinutes]
        final == IF /\ c.maxTime # None
                    /\ \/ raised.hours > parseTime(c.maxTime[1]).hours
                       \/ /\ raised.hours = parseTime(c.maxTime[1]).hours
                          /\ raised.minutes > parseTime(c.maxTime[1]).minutes
                 THEN parseTime(c.maxTime[1])
                 ELSE raised
    IN  formatTime(final.hours, final.minutes)

\* The UTC calendar day of the date and the fields of the time string, read
\* as a wall-clock time of the picker's timezone.
combineDateAndTime(date, time, tz, hc) ==
    LET parts == Split(time, <<>>)
        hours == NumberOf(parts[1], 0)
        minutes == IF Len(parts) >= 2 THEN NumberOf(parts[2], 0) ELSE 0
    IN  createDateInTimezone(
            [year |-> getUTCFullYear(date), month |-> getUTCMonth(date),
             day |-> getUTCDate(date), hour |-> hours, minute |-> minutes],
            tz, hc)

\* The range the effect builds from the selection: both endpoints, the
\* start alone, or nothing.
BuildRange(sd, ed, st, et, tz, hc) ==
    [start |-> IF sd = None THEN None
               ELSE Some(combineDateAndTime(sd[1], st, tz, hc)),
     end   |-> IF sd = None \/ ed = None THEN None
               ELSE Some(combineDateAndTime(ed[1], et, tz, hc))]

\* onChange is called before the range is validated
Report_First(r, c, prevError) ==
    IF r.start # None /\ r.end # None
    THEN [range |-> r, validationError |-> validateRange(r, c), onChange |-> Some(r)]
    ELSE [range |-> r, validationError |-> prevError, onChange |-> Some(r)]

\* What the effect does with the range it built: a complete range is
\* validated, then either reported through onChange (and the error cleared)
\* or its error stored; a partial range is reported as it is and the stored
\* error is left alone.  onChange is None when onChange is not called.
Report(r, c, prevError) ==
    IF r.start # None /\ r.end # None
    THEN IF validateRange(r, c) = "none"
         THEN [range |-> r, validationError |-> "none", onChange |-> Some(r)]
         ELSE [range |-> r, validationError |-> validateRange(r, c), onChange |-> None]
    ELSE [range |-> r, validationError |-> prevError, onChange |-> Some(r)]

\* The effect that runs after every change of the selection, the times or
\* the timezone.
RangeEffect(sd, ed, st, et, tz, hc, c, prevError) ==
    CHOOSE e \in {Report(r, c, prevError) : r \in {BuildRange(sd, ed, st, et, tz, hc)}} : TRUE

\* The timezones offered by the select that the model knows the offsets of.
PickerZones == {"UTC", "America/New_York", "Asia/Tokyo"}

\* Number of consecutive calendar cells that can be clicked.
NumPickDays == 2

\* The cells of 2024-03-09 and 2024-03-10, each the UTC midnight of its day.
PickDates ==
    {[day |-> DaysFromCivil(2024, 3, 9) + k, ms |-> 0] : k \in 0..(NumPickDays - 1)}

\* The hours and minutes entered into the time pickers.
PickHours == {0, 10}
PickMinutes == {0, 30}

NoConstraints ==
    [minDate |-> None, maxDate |-> None, blackoutDates |-> None,
     minDuration |-> None, maxDuration |-> None, minTime |-> None, maxTime |-> None]

\* no constraints; business hours 09:30 - 10:00; 2024-03-09 blacked out
PickerConstraints ==
    {NoConstraints,
     [NoConstraints EXCEPT !.minTime = Some(T0930), !.maxTime = Some(T1000)],
     [NoConstraints EXCEPT
         !.blackoutDates = Some(<<[day |-> DaysFromCivil(2024, 3, 9), ms |-> 0]>>)]}

\* one preset: 2024-03-09T10:00Z to 2024-03-10T10:30Z
Presets ==
    {[start |-> [day |-> DaysFromCivil(2024, 3, 9), ms |-> 10 * MsPerHour],
      end   |-> [day |-> DaysFromCivil(2024, 3, 10), ms |-> 10 * MsPerHour + 30 * MsPerMinute]]}

\* The picker after mounting with no value: nothing selected, both times
\* 00:00, and the effect has reported the empty range.
InitPicker ==
    /\ selectedStartDate = None /\ selectedEndDate = None
    /\ startTime = T0000 /\ endTime = T0000
    /\ hoverDate = None
    /\ currentMonth = 2 /\ currentYear = 2024
    /\ validationError = "none"
    /\ timezone \in PickerZones
    /\ hourCycle \in HourCycles
    /\ constraints \in PickerConstraints
    /\ range = NoRange
    /\ onChangeArg = Some(NoRange)
    /\ focusedDate = None
    /\ pointer = None
    /\ lastKey = "none"
    /\ probe = None /\ verr = "none" /\ disabled = FALSE
    /\ civil = None /\ low = 0 /\ high = 0 /\ iter = 0 /\ bestDate = None
    /\ pc = "picker"

(* The cells of CalendarGrid (utils/timezone.ts, lines 161 - 441) *)

\* setUTCMonth(getUTCMonth() + months): the day of the month and the time
\* are kept and a day past the end of the month carries over.
addMonths(date, months) ==
    MkDate(DateUTC(getUTCFullYear(date), getUTCMonth(date) + months,
                   getUTCDate(date), 0, 0).day,
           date.ms)

\* every month taken to have 30 days
getDaysInMonth_Thirty(year, month) == 30

\* new Date(Date.UTC(year, month + 1, 0)).getUTCDate()
getDaysInMonth(year, month) == getUTCDate(DateUTC(year, month + 1, 0, 0, 0))

\* 0 for Sunday; 1970-01-01 was a Thursday
getUTCDay(date) == (date.day + 4) % 7

\* The cells of the grid, { date, isCurrentMonth } each: the tail of the
\* previous month back to a Sunday, the month itself, and the head of the
\* next month up to 42 cells.
calendarDays(year, month) ==
    LET daysInMonth == getDaysInMonth(year, month)
        firstDayOfWeek == getUTCDay(DateUTC(year, month, 1, 0, 0))
        prevMonth == IF month = 0 THEN 11 ELSE month - 1
        prevYear == IF month = 0 THEN year - 1 ELSE year
        daysInPrevMonth == getDaysInMonth(prevYear, prevMonth)
        nextMonth == IF month = 11 THEN 0 ELSE month + 1
        nextYear == IF month = 11 THEN year + 1 ELSE year
        remainingDays == 42 - (firstDayOfWeek + daysInMonth)
    IN  [k \in 1..firstDayOfWeek |->
            [date |-> DateUTC(prevYear, prevMonth, daysInPrevMonth - (firstDayOfWeek - k), 0, 0),
             isCurrentMonth |-> FALSE]]
        \o [day \in 1..daysInMonth |->
            [date |-> DateUTC(year, month, day, 0, 0), isCurrentMonth |-> TRUE]]
        \o [day \in 1..remainingDays |->
            [date |-> DateUTC(nextYear, nextMonth, day, 0, 0), isCurrentMonth |-> FALSE]]

\* date.toISOString().split('T')[0]: year, month (1-based) and day in UTC
getCellId(date) ==
    LET cd == CivilFromDays(date.day)
    IN  <<cd.year, cd.month + 1, cd.date>>

\* The cell that querySelector('button:not([disabled])') finds: the first
\* enabled cell in document order, None when every cell is disabled.
FirstEnabledCell(year, month, c) ==
    LET cells == calendarDays(year, month)
        enabled == {k \in 1..Len(cells) : ~isDateDisabled(cells[k].date, c)}
    IN  IF enabled = {} THEN None
        ELSE Some(cells[CHOOSE k \in enabled : \A j \in enabled : k <= j].date)

\* The switch of handleKeyDown for the keys that move the focus.
TargetDate(key, date, year, month) ==
    CASE key = "ArrowLeft" -> addDays(date, -1)
      [] key = "ArrowRight" -> addDays(date, 1)
      [] key = "ArrowUp" -> addDays(date, -7)
      [] key = "ArrowDown" -> addDays(date, 7)
      [] key = "Home" -> DateUTC(year, month, 1, 0, 0)
      [] key = "End" -> DateUTC(year, month, getDaysInMonth(year, month), 0, 0)
      [] key = "PageUp" -> addMonths(date, -1)
      [] key = "PageDown" -> addMonths(date, 1)

\* gridRef.current.querySelector('[id="..."]'): the cell with the id, None
\* when the grid has no such cell.
FindCell(cells, id) ==
    IF \E k \in 1..Len(cells) : getCellId(cells[k].date) = id
    THEN Some(cells[CHOOSE k \in 1..Len(cells) : getCellId(cells[k].date) = id].date)
    ELSE None

\* if (targetCell && !targetCell.disabled) targetCell.focus(): the date that
\* has the focus afterwards, date being the cell the key was pressed on.
MoveFocus(targetCell, date, c) ==
    IF targetCell # None /\ ~isDateDisabled(targetCell[1], c) THEN targetCell[1] ELSE date

\* The date that has the focus after handleKeyDown: the target of the key
\* if its cell is in the rendered grid and enabled.
FocusAfterKey(key, date, year, month, c) ==
    CHOOSE focus \in
        {MoveFocus(targetCell, date, c) :
            targetCell \in {FindCell(cells, id) :
                cells \in {calendarDays(year, month)},
                id \in {getCellId(TargetDate(key, date, year, month))}}} : TRUE

\* Enter and Space hand the date to onDateSelect instead (DateSelect).
NavigationKeys ==
    {"ArrowLeft", "ArrowRight", "ArrowUp", "ArrowDown", "Home", "End", "PageUp", "PageDown"}

\* the grid of the month has a cell for the date
InGrid(date, year, month) == FindCell(calendarDays(year, month), getCellId(date)) # None

\* The grid after the displayed month has been set to (year, month): when it
\* is another month the cells are rendered anew, the effect on [year, month]
\* focuses the first enabled cell, and the pointer is on a cell only if the
\* cell it was on is still in the grid.
Rerender(year, month) ==
    IF year = currentYear /\ month = currentMonth
    THEN UNCHANGED <<focusedDate, pointer>>
    ELSE /\ focusedDate' = FirstEnabledCell(year, month, constraints)
         /\ pointer' = IF pointer # None /\ InGrid(pointer[1], year, month)
                       THEN pointer ELSE None

\* The state after an event handler has set the five values the effect
\* depends on and the effect has run.
Commit(sd, ed, st, et, tz) ==
    \E e \in {RangeEffect(sd, ed, st, et, tz, hourCycle, constraints, validationError)} :
        /\ selectedStartDate' = sd
        /\ selectedEndDate' = ed
        /\ startTime' = st
        /\ endTime' = et
        /\ timezone' = tz
        /\ range' = e.range
        /\ validationError' = e.validationError
        /\ onChangeArg' = e.onChange
        /\ UNCHANGED <<constraints, probe, verr, disabled, hourCycle,
                       civil, low, high, bestDate, iter, lastKey, pc>>

\* the second date becomes the end even when it is before the start
handleDateSelect_NoSwap(date, sd, ed) ==
    IF sd = None \/ ed # None
    THEN [start |-> Some(date), end |-> None]
    ELSE [start |-> sd, end |-> Some(date)]

\* The selection that handleDateSelect sets: a new one when there is no
\* start or the selection is complete, else the completed one, swapped if
\* the date is before the pending start.
handleDateSelect(date, sd, ed) ==
    IF sd = None \/ ed # None
    THEN [start |-> Some(date), end |-> None]
    ELSE IF DateLt(date, sd[1])
    THEN [start |-> Some(date), end |-> sd]
    ELSE [start |-> sd, end |-> Some(date)]

\* onDateSelect(date): handleDateSelect and the effects that follow it.
SelectDate(date) ==
    /\ \E sel \in {handleDateSelect(date, selectedStartDate, selectedEndDate)} :
          Commit(sel.start, sel.end, startTime, endTime, timezone)
    /\ hoverDate' = None
    /\ currentMonth' = getUTCMonth(date)
    /\ currentYear' = getUTCFullYear(date)
    /\ Rerender(getUTCFullYear(date), getUTCMonth(date))

\* A click on an enabled calendar cell: handleDateSelect.
DateSelect ==
    /\ pc = "picker"
    /\ \E date \in PickDates :
          /\ ~isDateDisabled(date, constraints)
          /\ SelectDate(date)

\* An entry in the hours or the minutes field of the start time picker.
StartTimeChange ==
    /\ pc = "picker"
    /\ \E h \in PickHours, m \in PickMinutes :
          /\ h = parseTime(startTime).hours \/ m = parseTime(startTime).minutes
          /\ Commit(selectedStartDate, selectedEndDate,
                    updateTime(h, m, constraints), endTime, timezone)
    /\ UNCHANGED <<hoverDate, currentMonth, currentYear, focusedDate, pointer>>

\* An entry in the hours or the minutes field of the end time picker.
EndTimeChange ==
    /\ pc = "picker"
    /\ \E h \in PickHours, m \in PickMinutes :
          /\ h = parseTime(endTime).hours \/ m = parseTime(endTime).minutes
          /\ Commit(selectedStartDate, selectedEndDate,
                    startTime, updateTime(h, m, constraints), timezone)
    /\ UNCHANGED <<hoverDate, currentMonth, currentYear, focusedDate, pointer>>

\* A choice in the timezone select.
TimezoneChange ==
    /\ pc = "picker"
    /\ \E tz \in PickerZones :
          Commit(selectedStartDate, selectedEndDate, startTime, endTime, tz)
    /\ UNCHANGED <<hoverDate, currentMonth, currentYear, focusedDate, pointer>>

\* A click on a preset: handlePresetSelect.
PresetSelect ==
    /\ pc \in {"picker", "calendar"}
    /\ \E preset \in Presets :
          /\ Commit(Some(preset.start), Some(preset.end),
                    formatTime(getUTCHours(preset.start), getUTCMinutes(preset.start)),
                    formatTime(getUTCHours(preset.end), getUTCMinutes(preset.end)),
                    timezone)
          /\ currentMonth' = getUTCMonth(preset.start)
          /\ currentYear' = getUTCFullYear(preset.start)
          /\ Rerender(getUTCFullYear(preset.start), getUTCMonth(preset.start))
    /\ UNCHANGED hoverDate

NextPicker ==
    DateSelect \/ StartTimeChange \/ EndTimeChange \/ TimezoneChange \/ PresetSelect

SpecPicker == InitPicker /\ [][NextPicker]_vars

----------------------------------------------------------------------------
(* The TimePicker on its own: startTime is its value prop, which the parent
   replaces with every time handed to onChange; the hours and minutes state
   are the fields of the value (the effect on [value]). *)

\* minTime / maxTime: absent, one of them, a window, a single instant, and
\* a minTime later than the maxTime
TimeWindows ==
    {NoConstraints,
     [NoConstraints EXCEPT !.minTime = Some(T0930)],
     [NoConstraints EXCEPT !.maxTime = Some(T1000)],
     [NoConstraints EXCEPT !.minTime = Some(T0930), !.maxTime = Some(T1000)],
     [NoConstraints EXCEPT !.minTime = Some(T0930), !.maxTime = Some(T0930)],
     [NoConstraints EXCEPT !.minTime = Some(T1000), !.maxTime = Some(T0900)]}

\* parseInt of the text typed into a field
TypedValues == {-1, 0, 9, 10, 23, 24, 45, 59, 60, 99}

InitTimePicker ==
    /\ startTime = T0000 /\ endTime = T0000
    /\ constraints \in TimeWindows
    /\ lastKey = "none"
    /\ selectedStartDate = None /\ selectedEndDate = None
    /\ hoverDate = None
    /\ currentMonth = 0 /\ currentYear = 1970
    /\ validationError = "none"
    /\ onChangeArg = None
    /\ focusedDate = None
    /\ pointer = None
    /\ range = NoRange
    /\ probe = None /\ verr = "none" /\ disabled = FALSE
    /\ SearchIdle
    /\ pc = "timepicker"

\* updateTime called by the named handler: the result is handed to onChange
\* and becomes the value.
Emit(handler, newHours, newMinutes) ==
    /\ startTime' = updateTime(newHours, newMinutes, constraints)
    /\ lastKey' = handler
    /\ pc' = "emitted"
    /\ UNCHANGED <<validatorVars, searchVars, selectedStartDate, selectedEndDate,
                   endTime, hoverDate, currentMonth, currentYear, validationError,
                   onChangeArg, focusedDate, pointer>>

TimePickerMounted == pc \in {"timepicker", "emitted"}

hours == parseTime(startTime).hours
minutes == parseTime(startTime).minutes

handleHoursChange ==
    /\ TimePickerMounted
    /\ \E newHours \in TypedValues : Emit("handleHoursChange", newHours, minutes)

handleMinutesChange ==
    /\ TimePickerMounted
    /\ \E newMinutes \in TypedValues : Emit("handleMinutesChange", hours, newMinutes)

handleHoursKeyDown ==
    /\ TimePickerMounted
    /\ \E key \in {"ArrowUp", "ArrowDown"} :
          Emit("handleHoursKeyDown", IF key = "ArrowUp" THEN hours + 1 ELSE hours - 1, minutes)

handleMinutesKeyDown ==
    /\ TimePickerMounted
    /\ \E key \in {"ArrowUp", "ArrowDown"} :
          Emit("handleMinutesKeyDown", hours, IF key = "ArrowUp" THEN minutes + 1 ELSE minutes - 1)

incrementHours == TimePickerMounted /\ Emit("incrementHours", hours + 1, minutes)

decrementHours == TimePickerMounted /\ Emit("decrementHours", hours - 1, minutes)

\* the buttons of the minutes field step by 15
incrementMinutes == TimePickerMounted /\ Emit("incrementMinutes", hours, minutes + 15)

decrementMinutes == TimePickerMounted /\ Emit("decrementMinutes", hours, minutes - 15)

NextTimePicker ==
    \/ handleHoursChange \/ handleMinutesChange
    \/ handleHoursKeyDown \/ handleMinutesKeyDown
    \/ incrementHours \/ decrementHours
    \/ incrementMinutes \/ decrementMinutes

SpecTimePicker == InitTimePicker /\ [][NextTimePicker]_vars

----------------------------------------------------------------------------
(* CalendarGrid (utils/timezone.ts, lines 161 - 441) *)

\* Number of months the previous / next buttons move within.
NumGridMonths == 3

\* year * 12 + month of a displayed month; the window starts at January 2024
MonthIndex(year, month) == year * 12 + month
FirstMonthIndex == MonthIndex(2024, 0)
LastMonthIndex == FirstMonthIndex + NumGridMonths - 1

\* no constraints; 2024-03-09 blacked out; nothing before 2024-03-01
GridConstraints ==
    {NoConstraints,
     [NoConstraints EXCEPT
         !.blackoutDates = Some(<<[day |-> DaysFromCivil(2024, 3, 9), ms |-> 0]>>)],
     [NoConstraints EXCEPT !.minDate = Some([day |-> DaysFromCivil(2024, 3, 1), ms |-> 0])]}

\* The grid after mounting: the effect has focused the first enabled cell.
InitGrid ==
    /\ \E idx \in FirstMonthIndex..LastMonthIndex :
          /\ currentYear = idx \div 12
          /\ currentMonth = idx % 12
    /\ constraints \in GridConstraints
    /\ focusedDate = FirstEnabledCell(currentYear, currentMonth, constraints)
    /\ pointer = None
    /\ lastKey = "none"
    /\ selectedStartDate = None /\ selectedEndDate = None
    /\ startTime = T0000 /\ endTime = T0000
    /\ hoverDate = None
    /\ validationError = "none"
    /\ onChangeArg = None
    /\ range = NoRange
    /\ probe = None /\ verr = "none" /\ disabled = FALSE
    /\ SearchIdle
    /\ pc = "grid"

\* A navigation key pressed on the focused cell: handleKeyDown.
KeyDown ==
    /\ pc = "grid"
    /\ focusedDate # None
    /\ \E key \in NavigationKeys :
          /\ lastKey' = key
          /\ focusedDate' = Some(FocusAfterKey(key, focusedDate[1], currentYear,
                                               currentMonth, constraints))
    /\ UNCHANGED <<validatorVars, searchVars, selectedStartDate, selectedEndDate,
                   startTime, endTime, hoverDate, currentMonth, currentYear,
                   validationError, onChangeArg, pointer, pc>>

\* Number of months the buttons move within while the picker is mounted
\* with its calendar; the window starts at December 2023.
NumCalendarMonths == 4

FirstCalendarIndex == MonthIndex(2023, 11)
LastCalendarIndex == FirstCalendarIndex + NumCalendarMonths - 1

\* the months that can be displayed
MonthWindow ==
    IF pc = "grid" THEN FirstMonthIndex..LastMonthIndex
    ELSE FirstCalendarIndex..LastCalendarIndex

\* the year is left as it is when the month wraps
handlePreviousMonth_SameYear(year, month) ==
    IF month = 0 THEN [year |-> year, month |-> 11]
    ELSE [year |-> year, month |-> month - 1]

\* The month and year that handlePreviousMonth / handleNextMonth set.
handlePreviousMonth(year, month) ==
    IF month = 0 THEN [year |-> year - 1, month |-> 11]
    ELSE [year |-> year, month |-> month - 1]

handleNextMonth(year, month) ==
    IF month = 11 THEN [year |-> year + 1, month |-> 0]
    ELSE [year |-> year, month |-> month + 1]

\* The previous-month button: handlePreviousMonth, then the grid's effect
\* on [year, month] focuses the first enabled cell.
PreviousMonth ==
    /\ pc \in {"grid", "calendar"}
    /\ MonthIndex(currentYear, currentMonth) - 1 \in MonthWindow
    /\ \E to \in {handlePreviousMonth(currentYear, currentMonth)} :
          /\ currentMonth' = to.month
          /\ currentYear' = to.year
          /\ Rerender(to.year, to.month)
    /\ lastKey' = "none"
    /\ UNCHANGED <<validatorVars, searchVars, selectedStartDate, selectedEndDate,
                   startTime, endTime, hoverDate, validationError, onChangeArg, pc>>

\* The next-month button: handleNextMonth, then the grid's effect.
NextMonth ==
    /\ pc \in {"grid", "calendar"}
    /\ MonthIndex(currentYear, currentMonth) + 1 \in MonthWindow
    /\ \E to \in {handleNextMonth(currentYear, currentMonth)} :
          /\ currentMonth' = to.month
          /\ currentYear' = to.year
          /\ Rerender(to.year, to.month)
    /\ lastKey' = "none"
    /\ UNCHANGED <<validatorVars, searchVars, selectedStartDate, selectedEndDate,
                   startTime, endTime, hoverDate, validationError, onChangeArg, pc>>

NextGrid == KeyDown \/ PreviousMonth \/ NextMonth

SpecGrid == InitGrid /\ [][NextGrid]_vars

(* The picker with its calendar, used with mouse and keyboard *)

\* The cells the pointer visits: 2023-12-31 (in the grids of December and
\* January) and 2024-03-09 (in the grids of February and March).
HoverDates ==
    {[day |-> DaysFromCivil(2023, 12, 31), ms |-> 0],
     [day |-> DaysFromCivil(2024, 3, 9), ms |-> 0]}

InitCalendar ==
    /\ \E idx \in FirstCalendarIndex..LastCalendarIndex :
          /\ currentYear = idx \div 12
          /\ currentMonth = idx % 12
    /\ constraints \in GridConstraints
    /\ focusedDate = FirstEnabledCell(currentYear, currentMonth, constraints)
    /\ pointer = None
    /\ lastKey = "none"
    /\ selectedStartDate = None /\ selectedEndDate = None
    /\ startTime = T0000 /\ endTime = T0000
    /\ hoverDate = None
    /\ validationError = "none"
    /\ timezone = "UTC"
    /\ hourCycle = "h23"
    /\ range = NoRange
    /\ onChangeArg = Some(NoRange)
    /\ probe = None /\ verr = "none" /\ disabled = FALSE
    /\ civil = None /\ low = 0 /\ high = 0 /\ iter = 0 /\ bestDate = None
    /\ pc = "calendar"

\* The pointer moves onto a cell: onMouseEnter.
MouseEnter ==
    /\ pc = "calendar"
    /\ pointer = None
    /\ \E date \in HoverDates :
          /\ InGrid(date, currentYear, currentMonth)
          /\ pointer' = Some(date)
          /\ hoverDate' = IF ~isDateDisabled(date, constraints) THEN Some(date) ELSE hoverDate
    /\ UNCHANGED <<validatorVars, searchVars, selectedStartDate, selectedEndDate,
                   startTime, endTime, currentMonth, currentYear, validationError,
                   onChangeArg, focusedDate, lastKey, pc>>

\* The pointer moves off the cell it is on: onMouseLeave.  A host that
\* delivers no mouse events to a disabled button leaves the handler unrun.
MouseLeave ==
    /\ pc = "calendar"
    /\ pointer # None
    /\ pointer' = None
    /\ \/ hoverDate' = None
       \/ isDateDisabled(pointer[1], constraints) /\ hoverDate' = hoverDate
    /\ UNCHANGED <<validatorVars, searchVars, selectedStartDate, selectedEndDate,
                   startTime, endTime, currentMonth, currentYear, validationError,
                   onChangeArg, focusedDate, lastKey, pc>>

\* A click on the cell the pointer is on: onClick, which does nothing on a
\* disabled cell.
CellClick ==
    /\ pc = "calendar"
    /\ pointer # None
    /\ IF isDateDisabled(pointer[1], constraints)
       THEN UNCHANGED vars
       ELSE SelectDate(pointer[1])

\* Enter or Space pressed on the focused cell: handleKeyDown hands the date
\* to onDateSelect.
KeySelect ==
    /\ pc = "calendar"
    /\ focusedDate # None
    /\ MonthIndex(getUTCFullYear(focusedDate[1]), getUTCMonth(focusedDate[1])) \in MonthWindow
    /\ SelectDate(focusedDate[1])

NextCalendar ==
    \/ MouseEnter \/ MouseLeave \/ CellClick \/ KeySelect
    \/ PreviousMonth \/ NextMonth \/ PresetSelect

SpecCalendar == InitCalendar /\ [][NextCalendar]_vars

(* The grid rendered for every month of a run of years *)

\* Number of years whose months are rendered, starting with 2023.
NumRenderYears == 4

RenderYears == 2023 .. (2023 + NumRenderYears - 1)

InitRender ==
    /\ currentYear \in RenderYears
    /\ currentMonth \in 0..11
    /\ constraints \in GridConstraints
    /\ focusedDate = None
    /\ pointer = None
    /\ lastKey = "none"
    /\ selectedStartDate = None /\ selectedEndDate = None
    /\ startTime = T0000 /\ endTime = T0000
    /\ hoverDate = None
    /\ validationError = "none"
    /\ onChangeArg = None
    /\ range = NoRange
    /\ probe = None /\ verr = "none" /\ disabled = FALSE
    /\ SearchIdle
    /\ pc = "render"

\* The first render: calendarDays is computed and the effect on
\* [year, month] focuses the first enabled cell.
Mount ==
    /\ pc = "render"
    /\ focusedDate' = FirstEnabledCell(currentYear, currentMonth, constraints)
    /\ pc' = "grid"
    /\ UNCHANGED <<validatorVars, searchVars, selectedStartDate, selectedEndDate,
                   startTime, endTime, hoverDate, currentMonth, currentYear,
                   validationError, onChangeArg, pointer, lastKey>>

NextRender == Mount

SpecRender == InitRender /\ [][NextRender]_vars

----------------------------------------------------------------------------
(* The rules of the validator as the specification states them, written    *)
(* over the instants themselves (day number and millisecond of the day).   *)

Complete == range.start # None /\ range.end # None
Validated == pc = "validated"
RStart == range.start[1]
REnd == range.end[1]

\* minutes after midnight of an "HH:mm" constraint
TimeOfDayMinutes(t) == parseTime(t).hours * 60 + parseTime(t).minutes

BlackoutDays ==
    IF constraints.blackoutDates = None THEN {}
    ELSE {constraints.blackoutDates[1][k].day : k \in 1..Len(constraints.blackoutDates[1])}

RuleMinDate == constraints.minDate # None /\ DateLt(RStart, constraints.minDate[1])
RuleMaxDate == constraints.maxDate # None /\ DateLt(constraints.maxDate[1], REnd)
\* start's day, end's day or a day between them is a blackout day
RuleBlackout ==
    \E d \in BlackoutDays : d = RStart.day \/ d = REnd.day \/ (RStart.day < d /\ d < REnd.day)
RuleInvalidRange == ~DateLt(RStart, REnd)
RuleMinDuration ==
    constraints.minDuration # None /\ DiffMs(REnd, RStart) < constraints.minDuration[1] * MsPerMinute
RuleMaxDuration ==
    constraints.maxDuration # None /\ DiffMs(REnd, RStart) > constraints.maxDuration[1] * MsPerMinute
RuleMinTime ==
    /\ constraints.minTime # None
    /\ RStart.ms \div MsPerMinute < TimeOfDayMinutes(constraints.minTime[1])
RuleMaxTime ==
    /\ constraints.maxTime # None
    /\ REnd.ms \div MsPerMinute > TimeOfDayMinutes(constraints.maxTime[1])

FirstViolated ==
    IF RuleMinDate THEN "min_date"
    ELSE IF RuleMaxDate THEN "max_date"
    ELSE IF RuleBlackout THEN "blackout"
    ELSE IF RuleInvalidRange THEN "invalid_range"
    ELSE IF RuleMinDuration THEN "min_duration"
    ELSE IF RuleMaxDuration THEN "max_duration"
    ELSE IF RuleMinTime THEN "min_time"
    ELSE IF RuleMaxTime THEN "max_time"
    ELSE "none"

\* C1: for a complete range validateRange returns the kind of the first
\* violated rule in the order MinDate, MaxDate, Blackout, InvalidRange,
\* MinDuration, MaxDuration, MinTime, MaxTime, and none exactly when no rule
\* is violated; a range violating MinDate and MaxDuration yields MinDate.
C1_FirstViolatedRule ==
    (Validated /\ Complete) =>
        /\ verr = FirstViolated
        /\ (RuleMinDate /\ RuleMaxDuration) => verr = "min_date"

C1_Witness ==
    /\ Validated /\ Complete
    /\ RuleMinDate /\ RuleMaxDuration /\ ~RuleInvalidRange
    /\ verr = "min_date"

\* C2: validateRange returns none whenever start or end is absent, whatever
\* the constraints say about the endpoint that is present.
C2_PartialRangeIsNone ==
    (Validated /\ ~Complete) => verr = "none"

C2_Witness ==
    /\ Validated
    /\ range.start # None /\ range.end = None
    /\ constraints.minDate # None /\ DateLt(RStart, constraints.minDate[1])
    /\ RStart.day \in BlackoutDays
    /\ verr = "none"

\* C3: for a complete range with start >= end validateRange never returns
\* none, MinDuration, MaxDuration, MinTime or MaxTime, and returns
\* InvalidRange whenever the MinDate, MaxDate and Blackout rules do not fire.
C3_InvertedRange ==
    (Validated /\ Complete /\ DateGe(RStart, REnd)) =>
        /\ verr \in {"min_date", "max_date", "blackout", "invalid_range"}
        /\ (~RuleMinDate /\ ~RuleMaxDate /\ ~RuleBlackout) => verr = "invalid_range"

C3_Witness ==
    /\ Validated /\ Complete
    /\ RStart = REnd
    /\ constraints.minDuration = Some(0)
    /\ verr = "invalid_range"

\* C4: for a complete range that passes MinDate and MaxDate and whose start
\* day is not after its end day, validateRange returns Blackout iff some
\* blackout entry falls on a day from start's day through end's day, whatever
\* the time of day of the entry, of start and of end.
C4_BlackoutIffDayInRange ==
    (Validated /\ Complete /\ ~RuleMinDate /\ ~RuleMaxDate /\ RStart.day <= REnd.day) =>
        (verr = "blackout" <=> \E d \in BlackoutDays : RStart.day <= d /\ d <= REnd.day)

\* an interior day is blacked out by an entry whose time of day matches
\* neither endpoint
C4_Witness ==
    /\ Validated /\ Complete
    /\ verr = "blackout"
    /\ RStart.day + 1 < REnd.day
    /\ \E k \in 1..Len(constraints.blackoutDates[1]) :
          LET b == constraints.blackoutDates[1][k]
          IN  RStart.day < b.day /\ b.day < REnd.day /\ b.ms # RStart.ms /\ b.ms # REnd.ms
    /\ RStart.day \notin BlackoutDays /\ REnd.day \notin BlackoutDays

\* C5: with minDate present and start < minDate the result is MinDate
\* whatever the other constraints and end are; start = minDate does not
\* trigger MinDate.
C5_MinDate ==
    (Validated /\ Complete /\ constraints.minDate # None) =>
        /\ DateLt(RStart, constraints.minDate[1]) => verr = "min_date"
        /\ RStart = constraints.minDate[1] => verr # "min_date"

C5_Witness ==
    /\ Validated /\ Complete
    /\ constraints.minDate # None
    /\ RStart = constraints.minDate[1]
    /\ verr = "none"

\* C6: with maxDate present, end > maxDate yields MaxDate unless MinDate is
\* violated; end = maxDate does not trigger MaxDate, and start is never
\* compared with maxDate.
C6_MaxDate ==
    (Validated /\ Complete /\ constraints.maxDate # None) =>
        /\ (DateGt(REnd, constraints.maxDate[1]) /\ ~RuleMinDate) => verr = "max_date"
        /\ ~DateGt(REnd, constraints.maxDate[1]) => verr # "max_date"

\* start is after maxDate, end is not
C6_Witness ==
    /\ Validated /\ Complete
    /\ constraints.maxDate # None
    /\ DateGt(RStart, constraints.maxDate[1])
    /\ REnd = constraints.maxDate[1]
    /\ verr = "invalid_range"

\* C7: for a complete range with start < end on which rules 1-4 do not fire,
\* the result is MinDuration iff minDuration is present and the exact
\* duration in minutes is below it; a duration equal to minDuration is
\* accepted and minDuration = 0 never fires.
C7_MinDuration ==
    (Validated /\ Complete /\ DateLt(RStart, REnd)
       /\ verr \notin {"min_date", "max_date", "blackout", "invalid_range"}) =>
        /\ verr = "min_duration" <=>
              (constraints.minDuration # None
                 /\ DiffMs(REnd, RStart) < constraints.minDuration[1] * MsPerMinute)
        /\ (constraints.minDuration # None
              /\ DiffMs(REnd, RStart) = constraints.minDuration[1] * MsPerMinute)
             => verr # "min_duration"
        /\ constraints.minDuration = Some(0) => verr # "min_duration"

\* half a minute against a minimum of one minute
C7_Witness ==
    /\ Validated /\ Complete
    /\ DiffMs(REnd, RStart) = 30000
    /\ constraints.minDuration = Some(1)
    /\ verr = "min_duration"

\* C8: for a complete range with start < end on which rules 1-5 do not fire,
\* the result is MaxDuration iff maxDuration is present and the duration in
\* minutes is above it; a duration equal to maxDuration is accepted and
\* maxDuration = 0 rejects every range with start < end.
C8_MaxDuration ==
    (Validated /\ Complete /\ DateLt(RStart, REnd)
       /\ verr \notin {"min_date", "max_date", "blackout", "invalid_range", "min_duration"}) =>
        /\ verr = "max_duration" <=>
              (constraints.maxDuration # None
                 /\ DiffMs(REnd, RStart) > constraints.maxDuration[1] * MsPerMinute)
        /\ (constraints.maxDuration # None
              /\ DiffMs(REnd, RStart) = constraints.maxDuration[1] * MsPerMinute)
             => verr # "max_duration"
        /\ constraints.maxDuration = Some(0) => verr = "max_duration"

C8_Witness ==
    /\ Validated /\ Complete
    /\ DiffMs(REnd, RStart) = 60 * MsPerMinute
    /\ constraints.maxDuration = Some(60)
    /\ constraints.minTime = None /\ constraints.maxTime = None
    /\ verr = "none"

\* C9: isDateDisabled(date, constraints) is true iff date < minDate, or
\* date > maxDate, or date's calendar day is the day of a blackout entry;
\* minTime, maxTime, minDuration and maxDuration play no part.
C9_IsDateDisabled ==
    (pc = "checked") =>
        (disabled <=>
            \/ (constraints.minDate # None /\ DateLt(probe[1], constraints.minDate[1]))
            \/ (constraints.maxDate # None /\ DateLt(constraints.maxDate[1], probe[1]))
            \/ probe[1].day \in BlackoutDays)

\* an enabled date under time-of-day and duration constraints that a range
\* starting and ending on it would violate
C9_Witness ==
    /\ pc = "checked"
    /\ ~disabled
    /\ constraints.minDate # None /\ probe[1] = constraints.minDate[1]
    /\ constraints.minTime = Some(T1000)
    /\ constraints.minDuration = Some(60)
    /\ constraints.blackoutDates # None /\ BlackoutDays # {}

\* The offsets a zone takes in 2024.
ZoneOffsets(tz) == IF tz = "America/New_York" THEN {-300, -240} ELSE {TzOffsetMinutes(tz, NYSpringForward)}

\* The instants whose wall clock in tz reads the civil time c at second 0.
InstantsOf(c, tz) ==
    {d \in {MkDate(RoughDate(c).day, RoughDate(c).ms - o * MsPerMinute) : o \in ZoneOffsets(tz)} :
        MkDate(d.day, d.ms + TzOffsetMinutes(tz, d) * MsPerMinute) = RoughDate(c)}

\* c never occurs on the wall clock of tz (it lies in a spring-forward gap)
InGap(c, tz) == InstantsOf(c, tz) = {}

\* instantToCivil: the six wall-clock fields of an instant in tz
CivilOf(date, tz) ==
    LET local == MkDate(date.day, date.ms + TzOffsetMinutes(tz, date) * MsPerMinute)
        cd == CivilFromDays(local.day)
    IN  [year |-> cd.year, month |-> cd.month, day |-> cd.date,
         hour |-> getUTCHours(local), minute |-> getUTCMinutes(local),
         second |-> getUTCSeconds(local)]

WithSecond(c, sec) ==
    [year |-> c.year, month |-> c.month, day |-> c.day,
     hour |-> c.hour, minute |-> c.minute, second |-> sec]

\* C10: round trip: for a valid civil date-time c at second 0 that is not in
\* a spring-forward gap of tz, the instant createDateInTimezone returns
\* formats back in tz to exactly c, the seconds field included.
C10_RoundTrip ==
    (pc = "returned" /\ civil[1] \in ValidCivils /\ ~InGap(civil[1], timezone)) =>
        CivilOf(bestDate[1], timezone) = WithSecond(civil[1], 0)

\* C11: for a civil time inside a spring-forward gap createDateInTimezone
\* does not fail and returns the examined candidate closest to the requested
\* civil time, an instant adjacent to the DST transition, not the naive
\* treat-as-UTC seed.
C11_GapSnapsToTransition ==
    (pc = "returned" /\ civil[1] \in ValidCivils /\ InGap(civil[1], timezone)) =>
        /\ bestDate[1] # RoughDate(civil[1])
        /\ DiffMs(bestDate[1], NYSpringForward) \in -MsPerMinute .. MsPerMinute

\* C12: for a civil time inside a fall-back overlap createDateInTimezone
\* returns an instant whose wall clock in tz reads the requested civil time
\* to the minute.
C12_OverlapReturnsMatch ==
    (pc = "returned" /\ civil[1] \in ValidCivils
       /\ Cardinality(InstantsOf(civil[1], timezone)) = 2) =>
        [CivilOf(bestDate[1], timezone) EXCEPT !.second = 0] = WithSecond(civil[1], 0)

Malformed(c) ==
    \/ c.month \notin 0..11
    \/ c.day < 1
    \/ c.day > DaysFromCivil(c.year + (c.month + 1) \div 12, ((c.month + 1) % 12) + 1, 1)
                 - DaysFromCivil(c.year + c.month \div 12, (c.month % 12) + 1, 1)
    \/ c.hour \notin 0..23
    \/ c.minute \notin 0..59

\* C18: createDateInTimezone rejects malformed civil fields before any search
\* begins: no iteration runs and no instant is returned for them.
C18_RejectsMalformed ==
    Malformed(civil[1]) => (iter = 0 /\ pc # "returned")

\* the returned instant is within 24 hours of the seed
Within24h == DiffMs(bestDate[1], RoughDate(civil[1])) \in -MsPerDay .. MsPerDay

\* C20: createDateInTimezone terminates after at most 20 iterations for every
\* civil time and zone, matching or not, and the instant it returns lies
\* within 24 hours of the naive treat-as-UTC seed.
\* Every step of a running call either returns or uses up one of the 20
\* iterations, so the call returns after at most 20 of them.
C20_Terminates ==
    /\ [](iter <= 20 /\ (pc = "returned" => Within24h))
    /\ [][pc' = "returned" \/ (iter' = iter + 1 /\ iter' <= 20)]_vars

\* a search that used all 20 iterations and returned
C20_Witness ==
    /\ pc = "returned"
    /\ iter = 20
    /\ InGap(civil[1], timezone)

----------------------------------------------------------------------------
(* The picker *)

Mounted == pc = "picker"
SelectionComplete == selectedStartDate # None /\ selectedEndDate # None

\* minutes after midnight on the wall clock of tz at an instant
WallMinutes(date, tz) == CivilOf(date, tz).hour * 60 + CivilOf(date, tz).minute

\* the day number of the civil day of tz that holds an instant
LocalDay(date, tz) == MkDate(date.day, date.ms + TzOffsetMinutes(tz, date) * MsPerMinute).day

\* C14: when the picker has built start and end from wall-clock times of
\* its timezone and rules 1-6 do not fire, the stored error is MinTime
\* exactly when start's wall-clock time in that timezone is earlier than
\* minTime, and MaxTime exactly when MinTime does not apply and end's
\* wall-clock time in that timezone is later than maxTime.
C14_TimeOfDayInZone ==
    (/\ Mounted /\ SelectionComplete
     /\ ~RuleMinDate /\ ~RuleMaxDate /\ ~RuleBlackout
     /\ ~RuleInvalidRange /\ ~RuleMinDuration /\ ~RuleMaxDuration) =>
        LET early == /\ constraints.minTime # None
                     /\ WallMinutes(RStart, timezone) < TimeOfDayMinutes(constraints.minTime[1])
            late ==  /\ constraints.maxTime # None
                     /\ WallMinutes(REnd, timezone) > TimeOfDayMinutes(constraints.maxTime[1])
        IN  /\ validationError = "min_time" <=> early
            /\ validationError = "max_time" <=> (~early /\ late)

\* C15: in a timezone other than UTC, with MinDate and MaxDate not firing,
\* the stored error is Blackout exactly when a blackout day is the civil
\* day of start in the timezone, that of end, or a day between them.
C15_BlackoutCivilDays ==
    (/\ Mounted /\ SelectionComplete /\ timezone # "UTC"
     /\ ~RuleMinDate /\ ~RuleMaxDate) =>
        (validationError = "blackout" <=>
            \E d \in BlackoutDays :
                \/ d = LocalDay(RStart, timezone)
                \/ d = LocalDay(REnd, timezone)
                \/ (LocalDay(RStart, timezone) < d /\ d < LocalDay(REnd, timezone)))

\* a complete range was handed to onChange
Reported(arg) == arg # None /\ arg[1].start # None /\ arg[1].end # None

\* C16: a change of the timezone while a range is selected reports the
\* same start and end instants as were reported before the change.
C16_TimezoneChangeKeepsInstants ==
    [][(/\ Mounted /\ timezone' # timezone
        /\ Reported(onChangeArg) /\ Reported(onChangeArg')) =>
            onChangeArg' = onChangeArg]_vars

----------------------------------------------------------------------------
(* The calendar grid *)

\* the day of the adjacent month with the day number of date, or the last
\* day of that month when it is shorter
CorrespondingDay(date, months) ==
    LET idx == MonthIndex(getUTCFullYear(date), getUTCMonth(date)) + months
        last == getDaysInMonth(idx \div 12, idx % 12)
    IN  DateUTC(idx \div 12, idx % 12,
                IF getUTCDate(date) > last THEN last ELSE getUTCDate(date), 0, 0)

\* C19: PageUp / PageDown pressed on a focused cell moves the focus to the
\* corresponding day of the previous / next month, and the month the grid
\* displays changes by exactly one in that direction.
C19_PageKeysChangeMonth ==
    [][(pc = "grid" /\ lastKey' \in {"PageUp", "PageDown"}) =>
          LET months == IF lastKey' = "PageUp" THEN -1 ELSE 1
          IN  /\ focusedDate' = Some(CorrespondingDay(focusedDate[1], months))
              /\ MonthIndex(currentYear', currentMonth')
                    = MonthIndex(currentYear, currentMonth) + months]_vars

----------------------------------------------------------------------------
(* The selection of the picker *)

\* the selection is the pair of some preset
PresetPair(sd, ed) == \E p \in Presets : sd = Some(p.start) /\ ed = Some(p.end)

\* C21: the picker never holds an end date without a start date, and with
\* both set the start is not after the end; a step that changes the
\* selection other than by a preset either completes a pending start with
\* the new date, swapping the two when the new date is the earlier one, or
\* starts a new selection with the end cleared.
C21_SelectionOrdered ==
    /\ [](Mounted =>
            /\ selectedEndDate # None => selectedStartDate # None
            /\ SelectionComplete => DateLe(selectedStartDate[1], selectedEndDate[1]))
    /\ [][(/\ Mounted
            /\ <<selectedStartDate, selectedEndDate>>' # <<selectedStartDate, selectedEndDate>>
            /\ ~PresetPair(selectedStartDate', selectedEndDate')) =>
              IF selectedStartDate # None /\ selectedEndDate = None
              THEN /\ selectedStartDate' # None /\ selectedEndDate' # None
                   /\ \/ /\ selectedStartDate' = selectedStartDate
                         /\ DateLe(selectedStartDate[1], selectedEndDate'[1])
                      \/ /\ selectedEndDate' = selectedStartDate
                         /\ DateLt(selectedStartDate'[1], selectedStartDate[1])
              ELSE selectedStartDate' # None /\ selectedEndDate' = None]_vars

C21_Witness ==
    /\ Mounted /\ SelectionComplete
    /\ selectedStartDate[1] \in PickDates /\ selectedEndDate[1] \in PickDates
    /\ DateLt(selectedStartDate[1], selectedEndDate[1])

----------------------------------------------------------------------------
(* Durations and order of the instants createDateInTimezone returns *)

\* the civil time the picker asks for: the UTC calendar day of the selected
\* date and the fields of the time string
ChosenCivil(date, time) ==
    [year |-> getUTCFullYear(date), month |-> getUTCMonth(date), day |-> getUTCDate(date),
     hour |-> parseTime(time).hours, minute |-> parseTime(time).minutes]

\* both chosen civil times occur exactly once in tz, at the same offset
SameOffset(c1, c2, tz) ==
    /\ Cardinality(InstantsOf(c1, tz)) = 1
    /\ Cardinality(InstantsOf(c2, tz)) = 1
    /\ \A d1 \in InstantsOf(c1, tz), d2 \in InstantsOf(c2, tz) :
          TzOffsetMinutes(tz, d1) = TzOffsetMinutes(tz, d2)

\* C22: for a selection whose two wall-clock times have no offset
\* transition between them, the instants the picker builds differ by
\* exactly the wall-clock difference, so the duration that validateRange
\* computes is the wall-clock duration chosen, and each instant is second 0,
\* millisecond 0 of its minute.
C22_DurationIsWallClock ==
    (/\ Mounted /\ SelectionComplete
     /\ SameOffset(ChosenCivil(selectedStartDate[1], startTime),
                   ChosenCivil(selectedEndDate[1], endTime), timezone)) =>
        /\ DiffMs(REnd, RStart)
              = DiffMs(RoughDate(ChosenCivil(selectedEndDate[1], endTime)),
                       RoughDate(ChosenCivil(selectedStartDate[1], startTime)))
        /\ RStart.ms % MsPerMinute = 0
        /\ REnd.ms % MsPerMinute = 0

\* C23: for two civil times of one zone, the first earlier than the second
\* (by year, month, day, hour, minute), the instant returned for the first
\* is not later than the instant returned for the second, also when one of
\* them lies in a spring-forward gap.
C23_OrderPreserving ==
    (pc = "compared" /\ DateLt(RoughDate(civil[1]), RoughDate(civil[2]))) =>
        DateLe(bestDate[1], bestDate[2])

----------------------------------------------------------------------------
(* The displayed validation error *)

\* C24: the stored validation error is non-null only while both dates are
\* selected and validateRange rejects the range combined from them; with a
\* partial or empty selection no error is displayed.
C24_ErrorOnlyWhenRejected ==
    (Mounted /\ validationError # "none") =>
        /\ SelectionComplete
        /\ validateRange(range, constraints) = validationError

\* C25: when validateRange accepts a complete range, isDateDisabled is false
\* for its start and for its end, and no calendar day from the start's day
\* through the end's day is a blackout day.
C25_AcceptedRangeIsEnabled ==
    (Validated /\ Complete /\ verr = "none") =>
        /\ ~isDateDisabled(RStart, constraints)
        /\ ~isDateDisabled(REnd, constraints)
        /\ \A d \in RStart.day .. REnd.day : d \notin BlackoutDays

\* an accepted range that starts exactly at minDate, under a blackout list
\* whose entries fall on the days before and after it
C25_Witness ==
    /\ Validated /\ Complete /\ verr = "none"
    /\ constraints.minDate # None /\ RStart = constraints.minDate[1]
    /\ BlackoutDays = {RStart.day - 1, REnd.day + 1}

\* some instant of calendar day d lies within [minDate, maxDate]
DayHasAllowedInstant(d) ==
    LET dayStart == [day |-> d, ms |-> 0]
        dayEnd == [day |-> d, ms |-> MsPerDay - 1]
        lo == IF constraints.minDate # None /\ DateGt(constraints.minDate[1], dayStart)
              THEN constraints.minDate[1] ELSE dayStart
        hi == IF constraints.maxDate # None /\ DateLt(constraints.maxDate[1], dayEnd)
              THEN constraints.maxDate[1] ELSE dayEnd
    IN  DateLe(lo, hi)

\* C26: a rendered calendar cell is disabled only if its day is a blackout
\* day or no instant of its day lies within [minDate, maxDate].
C26_CellDisabledOnlyIfDayExcluded ==
    (pc = "rendered" /\ disabled) =>
        \/ probe[1].day \in BlackoutDays
        \/ ~DayHasAllowedInstant(probe[1].day)

\* minTime <= maxTime as times of day, either of them possibly absent
WindowOrdered ==
    \/ constraints.minTime = None
    \/ constraints.maxTime = None
    \/ TimeOfDayMinutes(constraints.minTime[1]) <= TimeOfDayMinutes(constraints.maxTime[1])

MinuteHandlers ==
    {"handleMinutesChange", "handleMinutesKeyDown", "incrementMinutes", "decrementMinutes"}

\* C28: every time the TimePicker emits has hours in 0..23 and minutes in
\* 0..59 and, when minTime <= maxTime, lies within [minTime, maxTime]; a
\* handler of the minutes field leaves the hours as they were unless the
\* time is moved to minTime or maxTime.
C28_EmittedTimeInRange ==
    /\ [](pc = "emitted" =>
            /\ hours \in 0..23
            /\ minutes \in 0..59
            /\ WindowOrdered =>
                  /\ constraints.minTime # None =>
                        TimeOfDayMinutes(startTime) >= TimeOfDayMinutes(constraints.minTime[1])
                  /\ constraints.maxTime # None =>
                        TimeOfDayMinutes(startTime) <= TimeOfDayMinutes(constraints.maxTime[1]))
    /\ [][(pc' = "emitted" /\ lastKey' \in MinuteHandlers) =>
            \/ parseTime(startTime').hours = hours
            \/ constraints.minTime = Some(startTime')
            \/ constraints.maxTime = Some(startTime')]_vars

\* 09:59 inside the window 09:30 - 10:00, reached by a step of the minutes
\* field that ran into the end of the hour
C28_Witness ==
    /\ pc = "emitted"
    /\ lastKey = "incrementMinutes"
    /\ constraints.minTime = Some(T0930) /\ constraints.maxTime = Some(T1000)
    /\ hours = 9 /\ minutes = 59

\* the cells of the displayed month
Cells == calendarDays(currentYear, currentMonth)

\* the day number of the first day of the displayed month and of the month
\* after it
MonthStart == DaysFromCivil(currentYear, currentMonth + 1, 1)
MonthEnd ==
    IF currentMonth = 11 THEN DaysFromCivil(currentYear + 1, 1, 1)
    ELSE DaysFromCivil(currentYear, currentMonth + 2, 1)

\* C30: the grid of a month has exactly 42 cells, consecutive calendar days
\* (UTC midnights) beginning on a Sunday; every day of the month is in it
\* exactly once and flagged current-month, every other cell is flagged not
\* current-month.
C30_GridShape ==
    (pc = "grid" /\ currentMonth \in 0..11) =>
        \A cells \in {Cells} :
            /\ Len(cells) = 42
            /\ getUTCDay(cells[1].date) = 0
            /\ \A k \in 1..Len(cells) : cells[k].date.ms = 0
            /\ \A k \in 1..(Len(cells) - 1) : cells[k + 1].date.day = cells[k].date.day + 1
            /\ \A d \in MonthStart..(MonthEnd - 1) :
                  /\ Cardinality({k \in 1..Len(cells) : cells[k].date.day = d}) = 1
                  /\ \A k \in 1..Len(cells) : cells[k].date.day = d => cells[k].isCurrentMonth
            /\ \A k \in 1..Len(cells) :
                  cells[k].date.day \notin MonthStart..(MonthEnd - 1) => ~cells[k].isCurrentMonth

\* February 2026: 28 days beginning on a Sunday, so the grid has no cell of
\* January and two whole weeks of March.
C30_Witness ==
    /\ pc = "grid"
    /\ currentYear = 2026 /\ currentMonth = 1
    /\ \E cells \in {Cells} :
          /\ cells[1].isCurrentMonth
          /\ ~cells[29].isCurrentMonth /\ ~cells[42].isCurrentMonth
          /\ focusedDate = Some(cells[1].date)

----------------------------------------------------------------------------
(* The picker with its calendar *)

CalendarMounted == pc = "calendar"

\* the pointer has moved onto or off a cell of the displayed grid
PointerMoved ==
    /\ pointer' # pointer
    /\ currentMonth' = currentMonth /\ currentYear' = currentYear

\* C27: a date selected through the calendar is never a disabled one, the
\* focused cell is never disabled, and the pointer's moving onto or off a
\* disabled cell changes neither the selection nor the hover state.
C27_DisabledCellsAreInert ==
    /\ [](CalendarMounted =>
            /\ ~PresetPair(selectedStartDate, selectedEndDate) =>
                  /\ selectedStartDate # None =>
                        ~isDateDisabled(selectedStartDate[1], constraints)
                  /\ selectedEndDate # None =>
                        ~isDateDisabled(selectedEndDate[1], constraints)
            /\ focusedDate # None => ~isDateDisabled(focusedDate[1], constraints))
    /\ [][(/\ CalendarMounted
            /\ PointerMoved
            /\ \/ pointer # None /\ isDateDisabled(pointer[1], constraints)
               \/ pointer' # None /\ isDateDisabled(pointer'[1], constraints)) =>
              UNCHANGED <<selectedStartDate, selectedEndDate, hoverDate>>]_vars

\* C29: the displayed month stays in 0..11; the previous-month button moves
\* the display back by exactly one month, from January to December of the
\* year before; the next-month button moves it forward by exactly one
\* month, from December to January of the year after; next-month followed
\* by previous-month gives the (year, month) it started from.
C29_MonthNavigation ==
    /\ [](CalendarMounted =>
            /\ currentMonth \in 0..11
            /\ \A to \in {handleNextMonth(currentYear, currentMonth)} :
                  handlePreviousMonth(to.year, to.month)
                      = [year |-> currentYear, month |-> currentMonth])
    /\ [][(CalendarMounted /\ PreviousMonth) =>
              /\ MonthIndex(currentYear', currentMonth')
                    = MonthIndex(currentYear, currentMonth) - 1
              /\ currentMonth = 0 => (currentMonth' = 11 /\ currentYear' = currentYear - 1)]_vars
    /\ [][(CalendarMounted /\ NextMonth) =>
              /\ MonthIndex(currentYear', currentMonth')
                    = MonthIndex(currentYear, currentMonth) + 1
              /\ currentMonth = 11 => (currentMonth' = 0 /\ currentYear' = currentYear + 1)]_vars

\* December 2023 on display while the cell of 2024-03-09, which only the
\* grids of February and March have, is the pending start: the
\* previous-month button has gone back from there, past January
C29_Witness ==
    /\ CalendarMounted
    /\ currentYear = 2023 /\ currentMonth = 11
    /\ selectedStartDate = Some([day |-> DaysFromCivil(2024, 3, 9), ms |-> 0])
    /\ selectedEndDate = None
====
